---------------------------- MODULE Spec2Model ----------------------------
(***************************************************************************)
(* A model of src/uci-adapter.c: the adapter that drives a UCI chess       *)
(* engine (/usr/bin/stockfish) over two pipes.                             *)
(*                                                                         *)
(* Three processes take steps:                                             *)
(*   - the caller (the GUI thread): spawn_uci_engine, start_new_uci_game,  *)
(*     user_move_to_uci, each blocking inside wait_for_engine;             *)
(*   - the reader thread: parse_uci_function / parse_uci_buffer, which     *)
(*     dispatches one scanner event after the other;                       *)
(*   - the engine subprocess, the environment behind the pipes.            *)
(*                                                                         *)
(* Granularity: a caller operation is atomic between the points where it   *)
(* blocks (the polling loops), a reader handler is atomic except           *)
(* parse_move_with_ponder, which is cut after the GUI signal (lines        *)
(* 324/326): from there on the GUI thread may already submit a move.       *)
(***************************************************************************)
EXTENDS Naturals, Integers, Sequences, FiniteSets, TLC

VARIABLES
    \* ---- the statics of uci-adapter.c (lines 28-37)
    uci_ok, uci_ready, pondering, analysing, ply_num, to_play,
    all_moves,      \* the tokens after "position startpos moves"
    uci_mode, engine_name,
    \* ---- globals of the collaborators written by the adapter
    promo_type, last_move,
    \* ---- the caller thread
    callerPc,       \* "start", "uciok_wait", "wait", "cont" or "idle"
    callerAt,       \* which wait_for_engine call it is in (or came from)
    moves,          \* user_move_to_uci's local snapshot (line 205)
    \* ---- the reader thread
    readerPc, ponderMove,
    \* ---- the pipes and the engine behind them
    inq,            \* uci_in: command lines written, not yet consumed
    outq,           \* uci_out: engine lines not yet read
    search, stopReq, engineAlive,
    \* ---- observation of external effects (history variables)
    callerFx,       \* writes and clock calls of the caller's current operation
    readerFx,       \* writes, clock calls, GUI signals of the last best-move event
    guiMoves,       \* moves signalled to the GUI since the last new game began
    nEngineAppends, \* engine best moves appended since the last new game began
    waitExit,       \* how the last wait_for_engine ended
    readyFrom,      \* whether the last ready-ok handled answered the current is-ready
    lastEvent,      \* what the reader did with the last best-move line
    gameEvents,     \* user moves and best-move lines since the last new game began
    games, userMoves, timeouts,
    \* ---- the process-wide liveness flag the reader loop tests (line 488)
    running_flag,
    \* ---- append_move's position and locals (lines 177-196), per thread, in
    \* ---- the specification that runs it step by step
    appending

vars == <<uci_ok, uci_ready, pondering, analysing, ply_num, to_play, all_moves,
          uci_mode, engine_name, promo_type, last_move,
          callerPc, callerAt, moves, readerPc, ponderMove,
          inq, outq, search, stopReq, engineAlive,
          callerFx, readerFx, guiMoves, nEngineAppends,
          waitExit, readyFrom, lastEvent, gameEvents, games, userMoves, timeouts,
          running_flag, appending>>

progVars == <<uci_ok, uci_ready, pondering, analysing, ply_num, to_play,
              all_moves, uci_mode, engine_name, promo_type, last_move>>

-----------------------------------------------------------------------------
(* Bounds of the model *)

MaxOps == 2
MaxTimeouts == 1
\* The largest centipawn value and the largest mate distance of an info line.
MaxCp == 120
MaxMate == 3
\* The most lines one read of uci_out brings.
MaxChunk == 2

-----------------------------------------------------------------------------
(* Data *)

ENGINE_WHITE == "ENGINE_WHITE"
ENGINE_BLACK == "ENGINE_BLACK"
ENGINE_ANALYSIS == "ENGINE_ANALYSIS"
UCI_MODE == {ENGINE_WHITE, ENGINE_BLACK, ENGINE_ANALYSIS}

\* Move tokens are the characters of the protocol: "e2e4", "e7e5", "e7e8q",
\* "g1f3".
E2E4 == <<101, 50, 101, 52>>
E7E5 == <<101, 55, 101, 53>>
E7E8Q == <<101, 55, 101, 56, 113>>
G1F3 == <<103, 49, 102, 51>>
UserTokens == {E2E4}
EngineTokens == {E7E5, E7E8Q}
PonderTokens == {G1F3}
NoMove == <<>>

ics_mode == FALSE

\* The two threads that call append_move: the caller (line 202) and the
\* reader (lines 275 and 321).
Threads == {"caller", "reader"}

\* append_move's arguments and locals, and where the thread is in it.
AppendLocal(pc, new_move, lock_threads) ==
    [pc |-> pc, new_move |-> new_move, lock_threads |-> lock_threads,
     movesLength |-> 0, to_play |-> 0, ply_num |-> 0]

\* No thread is inside append_move.
NotAppending == [t \in Threads |-> AppendLocal("out", NoMove, FALSE)]

\* One line of text on uci_in.
Cmd(c) == [cmd |-> c, moves |-> <<>>, cur |-> FALSE]
PositionCmd(ms) == [cmd |-> "position startpos moves", moves |-> ms, cur |-> FALSE]
IsReadyCmd == [cmd |-> "isready", moves |-> <<>>, cur |-> TRUE]

\* One event of the scanner on uci_out.
Line(k) == [k |-> k, move |-> NoMove, ponder |-> NoMove, sup |-> FALSE, cur |-> FALSE]
BestMoveLine(m, s) == [k |-> "UCI_BEST_MOVE", move |-> m, ponder |-> NoMove,
                       sup |-> s, cur |-> FALSE]
BestMovePonderLine(m, p, s) == [k |-> "UCI_BEST_MOVE_WITH_PONDER", move |-> m,
                                ponder |-> p, sup |-> s, cur |-> FALSE]

\* One external effect: a write (one write_to_uci call, its lines), a clock
\* call, a GUI signal.
WriteFx(ls) == [t |-> "write", what |-> "", lines |-> ls, side |-> 0, lock |-> FALSE]
ClockFx(f, s, l) == [t |-> "clock", what |-> f, lines |-> <<>>, side |-> s, lock |-> l]
\* One entry of gameEvents.
UserEvent(m) == [by |-> "user", move |-> m]
BestMoveEvent(m) == [by |-> "engine", move |-> m]

GuiFx(m) == [t |-> "gui", what |-> "got-uci-move", lines |-> <<m>>, side |-> 0, lock |-> FALSE]

DisplayFx(field, text) == [t |-> "display", what |-> field, lines |-> <<text>>,
                           side |-> 0, lock |-> FALSE]

\* One info event: each field is absent (<<>>) or holds its captured value.
InfoLine(cp, mate, pv, nps) == [k |-> "UCI_INFO", cp |-> cp, mate |-> mate,
                                pv |-> pv, nps |-> nps]
Opt(S) == {<<>>} \cup {<<x>> : x \in S}
CpValues == (0 - MaxCp) .. MaxCp
MateValues == (0 - MaxMate) .. MaxMate
NpsValues == {999, 240000}
PvValues == {"e7e5 g1f3"}
InfoLines == {InfoLine(cp, mate, pv, nps) :
                cp \in Opt(CpValues), mate \in Opt(MateValues),
                pv \in Opt(PvValues), nps \in Opt(NpsValues)}

\* The ready-ok bookkeeping: once a new is-ready is written, every is-ready
\* still in the pipe and every ready-ok not yet read answers an earlier call.
Stale(q) == [i \in DOMAIN q |-> [q[i] EXCEPT !.cur = FALSE]]

-----------------------------------------------------------------------------
(* Helpers of the adapter *)

\* The lines that change nothing but the engine's own options and position,
\* which the model of the engine does not hold: the pipe drops them.
Silent(line) ==
    line.cmd \in {"setoption name Threads value 1", "setoption name Hash value 512",
                  "setoption name Ponder value true",
                  "setoption name Skill Level value 0",
                  "position startpos", "position startpos moves"}

Heard(message) == SelectSeq(message, LAMBDA line : ~Silent(line))

write_to_uci_until_written(q, message) == q \o Heard(message)

\* write_to_uci: the lines of one message go down the pipe; a failed write
\* (the engine is gone) is logged and the message is lost.
write_to_uci(q, message) == IF engineAlive THEN q \o Heard(message) ELSE q

\* The first half of wait_for_engine (lines 55-56), as seen on uci_in.
isready_written(q) == write_to_uci(Stale(q), <<IsReadyCmd>>)

handshake_or_deadline(ok) == TRUE

\* Lines 113-115: spawn_uci_engine polls uci_ok, with no deadline.
handshake_done(ok) == ok

\* Line 133: start_new_uci_game stops a running ponder or analysis search.
new_game_stops(pond, an) == pond \/ an

\* Line 207: user_move_to_uci stops a running ponder or analysis search.
user_move_stops(pond, mode) == pond \/ mode = ENGINE_ANALYSIS

skips_only_while_pondering(pond, mode) == pond

\* Lines 245-255 and 288-298: a best move is skipped.
skips_best_move(pond, mode) == pond \/ mode = ENGINE_ANALYSIS

append_move_keeps_side(am, tp, pn, new_move, lock_threads) ==
    [all_moves |-> Append(am, new_move), to_play |-> tp, ply_num |-> pn + 1,
     fx |-> <<>>]

\* append_move (lines 177-196), on the values it reads; returns the values
\* it writes and the clock calls it makes.
append_move(am, tp, pn, new_move, lock_threads) ==
    LET tp2 == IF tp # 0 THEN 0 ELSE 1
    IN  [all_moves |-> Append(am, new_move),
         to_play   |-> tp2,
         ply_num   |-> pn + 1,
         fx        |-> IF ics_mode THEN <<>>
                       ELSE IF pn = 1
                            THEN <<ClockFx("start_one_clock", tp2, FALSE)>>
                       ELSE IF pn > 1
                            THEN <<ClockFx("start_one_stop_other_clock", tp2, lock_threads)>>
                       ELSE <<>>]

\* char_to_type of chess-backend, on the character code handed to it.
char_to_type(c) ==
    CASE c = 81 -> "QUEEN" [] c = 82 -> "ROOK" [] c = 66 -> "BISHOP"
      [] c = 78 -> "KNIGHT" [] OTHER -> "UNKNOWN"

ponder_position_into_history(am, p) == [cmd |-> PositionCmd(Append(am, p)),
                                        all_moves |-> Append(am, p)]

\* Line 327: the position command of the ponder search; all_moves is read,
\* not written.
ponder_position(am, p) == [cmd |-> PositionCmd(Append(am, p)), all_moves |-> am]

got_uci_move_dropped(seen, bestMove) == seen

\* Lines 278-279 and 323-324: the board is told of the engine's move.
got_uci_move(seen, bestMove) == Append(seen, bestMove)

promotion_of_unshifted(bestMove, old) ==
    IF Len(bestMove) > 4 THEN char_to_type(bestMove[5]) ELSE old

\* Lines 268-274 and 313-318: the promotion piece of a best move.
promotion_of(bestMove, old) ==
    IF Len(bestMove) > 4 THEN char_to_type(bestMove[5] - 32) ELSE old

negated_only_for_black(mode, tp, scoreInt) ==
    IF mode = ENGINE_BLACK THEN 0 - scoreInt ELSE scoreInt

\* Lines 343-354 and 363-374: the switch on uci_mode that turns the score to
\* the first mover's point of view.
score_sign(mode, tp, scoreInt) ==
    CASE mode = ENGINE_ANALYSIS -> IF tp # 0 THEN 0 - scoreInt ELSE scoreInt
      [] mode = ENGINE_BLACK -> 0 - scoreInt
      [] mode = ENGINE_WHITE -> scoreInt

\* Line 355: snprintf "%.2f" of scoreInt / 100.0.
score_cp_string(scoreInt) ==
    LET a == IF scoreInt < 0 THEN 0 - scoreInt ELSE scoreInt
    IN  (IF scoreInt < 0 THEN "-" ELSE "") \o ToString(a \div 100) \o "."
          \o ToString((a % 100) \div 10) \o ToString(a % 10)

\* Line 376: snprintf "#%d".
score_mate_string(scoreInt) == "#" \o ToString(scoreInt)

\* Lines 395-397: snprintf "%d kNps" of npsInt / 1000.
nps_string(npsInt) == ToString(npsInt \div 1000) \o " kNps"

parse_info_always_scores(info, mode, tp) ==
    (IF info.cp # <<>>
       THEN <<DisplayFx("score", score_cp_string(score_sign(mode, tp, info.cp[1])))>>
     ELSE IF info.mate # <<>>
       THEN <<DisplayFx("score", score_mate_string(score_sign(mode, tp, info.mate[1])))>>
     ELSE <<DisplayFx("score", "")>>)
    \o (IF info.pv # <<>> THEN <<DisplayFx("best_line", info.pv[1])>> ELSE <<>>)
    \o (IF info.nps # <<>>
          THEN <<DisplayFx("nodes_per_second", nps_string(info.nps[1]))>>
        ELSE <<>>)

\* parse_info (lines 333-400): the display calls one info event makes. A
\* mate score is looked for only when there is no centipawn score.
parse_info(info, mode, tp) ==
    (IF info.cp # <<>>
       THEN <<DisplayFx("score", score_cp_string(score_sign(mode, tp, info.cp[1])))>>
     ELSE IF info.mate # <<>>
       THEN <<DisplayFx("score", score_mate_string(score_sign(mode, tp, info.mate[1])))>>
     ELSE <<>>)
    \o (IF info.pv # <<>> THEN <<DisplayFx("best_line", info.pv[1])>> ELSE <<>>)
    \o (IF info.nps # <<>>
          THEN <<DisplayFx("nodes_per_second", nps_string(info.nps[1]))>>
        ELSE <<>>)

-----------------------------------------------------------------------------
(* Initial state: the statics as the loader leaves them, before spawn *)

Init ==
    /\ uci_ok = FALSE /\ uci_ready = FALSE
    /\ pondering = FALSE /\ analysing = FALSE
    /\ ply_num = 0 /\ to_play = 0
    /\ all_moves = <<>>
    /\ uci_mode \in UCI_MODE
    /\ engine_name = ""
    /\ promo_type = "NONE" /\ last_move = NoMove
    /\ callerPc = "start" /\ callerAt = "spawn" /\ moves = <<>>
    /\ readerPc = "off" /\ ponderMove = NoMove
    /\ inq = <<>> /\ outq = <<>>
    /\ search = "none" /\ stopReq = FALSE /\ engineAlive = TRUE
    /\ callerFx = <<>> /\ readerFx = <<>>
    /\ guiMoves = <<>> /\ nEngineAppends = 0
    /\ waitExit = "none" /\ readyFrom = FALSE /\ lastEvent = "none"
    /\ gameEvents = <<>>
    /\ games = 0 /\ userMoves = 0 /\ timeouts = 0
    /\ running_flag = TRUE
    /\ appending = NotAppending

engineVars == <<search, stopReq, engineAlive>>
readerVars == <<readerPc, ponderMove, readerFx, guiMoves, nEngineAppends,
                readyFrom, lastEvent, promo_type, last_move, engine_name>>
callerVars == <<callerPc, callerAt, moves, callerFx, waitExit, games, userMoves,
                timeouts>>
gameVars == <<ply_num, to_play, all_moves>>

-----------------------------------------------------------------------------
(* The caller *)

\* spawn_uci_engine, lines 95-117: start the reader, write "uci", poll uci_ok.
SpawnUciEngine ==
    /\ UNCHANGED <<gameEvents, running_flag, appending>>
    /\ callerPc = "start"
    /\ readerPc' = "read"
    /\ inq' = write_to_uci(inq, <<Cmd("uci")>>)
    /\ callerFx' = <<WriteFx(<<Cmd("uci")>>)>>
    /\ callerPc' = "uciok_wait"
    /\ UNCHANGED <<uci_ok, uci_ready, pondering, analysing, gameVars, uci_mode,
                   engine_name, promo_type, last_move, callerAt, moves, ponderMove,
                   outq, engineVars, readerFx, guiMoves, nEngineAppends,
                   waitExit, readyFrom, lastEvent, games, userMoves, timeouts>>

SetOptions ==
    << <<Cmd("setoption name Threads value 1")>>,
       <<Cmd("setoption name Hash value 512")>>,
       <<Cmd("setoption name Ponder value true")>>,
       <<Cmd("setoption name Skill Level value 0")>> >>

\* spawn_uci_engine, lines 115-124: the handshake is through; set the
\* options and enter wait_for_engine.
SpawnConfigure ==
    /\ UNCHANGED <<gameEvents, running_flag, appending>>
    /\ callerPc = "uciok_wait"
    /\ handshake_done(uci_ok)
    /\ uci_ready' = FALSE
    /\ inq' = isready_written(write_to_uci(inq,
                 SetOptions[1] \o SetOptions[2] \o SetOptions[3] \o SetOptions[4]))
    /\ outq' = Stale(outq)
    /\ callerFx' = callerFx \o [i \in 1..4 |-> WriteFx(SetOptions[i])]
                            \o <<WriteFx(<<IsReadyCmd>>)>>
    /\ callerPc' = "wait" /\ callerAt' = "spawn"
    /\ UNCHANGED <<uci_ok, pondering, analysing, gameVars, uci_mode, moves,
                   readerVars, engineVars, waitExit, games, userMoves, timeouts>>

\* wait_for_engine, line 59: the flag is set, the loop ends.
WaitReady ==
    /\ UNCHANGED <<gameEvents, running_flag, appending>>
    /\ callerPc = "wait"
    /\ uci_ready
    /\ callerPc' = "cont"
    /\ waitExit' = IF readyFrom THEN "ready" ELSE "stale"
    /\ UNCHANGED <<progVars, callerAt, moves, callerFx, games, userMoves, timeouts,
                   readerPc, ponderMove, readerFx, guiMoves, nEngineAppends,
                   readyFrom, lastEvent, inq, outq, engineVars>>

WaitNeverExpires == FALSE /\ UNCHANGED vars

\* wait_for_engine, lines 60-66: the budget is over and the flag is still
\* clear.  The reader needs far less than the budget for the lines it has:
\* the budget runs out only while the reader is blocked in read().
WaitTimeout ==
    /\ UNCHANGED <<gameEvents, running_flag, appending>>
    /\ callerPc = "wait"
    /\ ~uci_ready
    /\ readerPc = "read" /\ outq = <<>>
    /\ timeouts < MaxTimeouts
    /\ timeouts' = timeouts + 1
    /\ callerPc' = "cont"
    /\ waitExit' = "timeout"
    /\ UNCHANGED <<progVars, callerAt, moves, callerFx, games, userMoves,
                   readerPc, ponderMove, readerFx, guiMoves, nEngineAppends,
                   readyFrom, lastEvent, inq, outq, engineVars>>

\* spawn_uci_engine, line 125.
SpawnReturn ==
    /\ UNCHANGED <<gameEvents, running_flag, appending>>
    /\ callerPc = "cont" /\ callerAt = "spawn"
    /\ callerPc' = "idle"
    /\ UNCHANGED <<progVars, callerAt, moves, callerFx, waitExit, games, userMoves,
                   timeouts, readerPc, ponderMove, readerFx, guiMoves, nEngineAppends,
                   readyFrom, lastEvent, inq, outq, engineVars>>

\* start_new_uci_game, lines 128-136.
StartNewGame(mode) ==
    /\ callerPc = "idle"
    /\ games + userMoves < MaxOps
    /\ games' = games + 1
    /\ guiMoves' = <<>> /\ nEngineAppends' = 0 /\ gameEvents' = <<>>
    /\ UNCHANGED <<running_flag, appending>>
    /\ uci_mode' = mode
    /\ LET stop == IF new_game_stops(pondering, analysing)
                   THEN <<Cmd("stop")>> ELSE <<>>
       IN  /\ inq' = isready_written(write_to_uci(inq, stop))
           /\ callerFx' = (IF stop # <<>> THEN <<WriteFx(stop)>> ELSE <<>>)
                          \o <<WriteFx(<<IsReadyCmd>>)>>
    /\ outq' = Stale(outq)
    /\ uci_ready' = FALSE
    /\ callerPc' = "wait" /\ callerAt' = "ng1"
    /\ UNCHANGED <<uci_ok, pondering, analysing, gameVars, engine_name,
                   promo_type, last_move, moves, readerPc, ponderMove, readerFx,
                   readyFrom, lastEvent, engineVars, waitExit, timeouts, userMoves>>

\* start_new_uci_game, lines 138-145.
NewGameReset ==
    /\ UNCHANGED <<gameEvents, running_flag, appending>>
    /\ callerPc = "cont" /\ callerAt = "ng1"
    /\ all_moves' = <<>>
    /\ ply_num' = 1
    /\ to_play' = 0
    /\ pondering' = FALSE
    /\ inq' = isready_written(write_to_uci(inq, <<Cmd("ucinewgame")>>))
    /\ outq' = Stale(outq)
    /\ callerFx' = callerFx \o <<WriteFx(<<Cmd("ucinewgame")>>), WriteFx(<<IsReadyCmd>>)>>
    /\ uci_ready' = FALSE
    /\ callerPc' = "wait" /\ callerAt' = "ng2"
    /\ UNCHANGED <<uci_ok, analysing, uci_mode, moves, readerVars, engineVars,
                   waitExit, games, userMoves, timeouts>>

\* start_new_uci_game, lines 147-169.
NewGameGo ==
    /\ UNCHANGED <<gameEvents, running_flag, appending>>
    /\ callerPc = "cont" /\ callerAt = "ng2"
    /\ LET go == CASE uci_mode = ENGINE_WHITE ->
                        << <<Cmd("position startpos"), Cmd("go wtime btime")>> >>
                   [] uci_mode = ENGINE_BLACK -> <<>>
                   [] uci_mode = ENGINE_ANALYSIS ->
                        << <<Cmd("position startpos"), Cmd("go infinite")>> >>
       IN  /\ inq' = IF go = <<>> THEN inq ELSE write_to_uci(inq, go[1])
           /\ callerFx' = callerFx \o [i \in 1..Len(go) |-> WriteFx(go[i])]
    /\ analysing' = IF uci_mode = ENGINE_ANALYSIS THEN TRUE ELSE analysing
    /\ callerPc' = "idle"
    /\ UNCHANGED <<uci_ok, uci_ready, pondering, gameVars, uci_mode, callerAt,
                   moves, readerVars, outq, engineVars, waitExit, games, userMoves, timeouts>>

\* user_move_to_uci, lines 198-210.
UserMoveToUci(move) ==
    /\ callerPc = "idle"
    /\ games >= 1
    /\ games + userMoves < MaxOps
    /\ userMoves' = userMoves + 1
    /\ gameEvents' = Append(gameEvents, UserEvent(move))
    /\ UNCHANGED <<running_flag, appending>>
    /\ LET a == append_move(all_moves, to_play, ply_num, move, FALSE)
           stop == IF user_move_stops(pondering, uci_mode)
                   THEN <<Cmd("stop")>> ELSE <<>>
       IN  /\ all_moves' = a.all_moves
           /\ to_play' = a.to_play
           /\ ply_num' = a.ply_num
           /\ moves' = a.all_moves
           /\ inq' = isready_written(write_to_uci(inq, stop))
           /\ callerFx' = a.fx \o (IF stop # <<>> THEN <<WriteFx(stop)>> ELSE <<>>)
                               \o <<WriteFx(<<IsReadyCmd>>)>>
    /\ outq' = Stale(outq)
    /\ uci_ready' = FALSE
    /\ callerPc' = "wait" /\ callerAt' = "um"
    /\ UNCHANGED <<uci_ok, pondering, analysing, uci_mode, readerVars, engineVars,
                   waitExit, games, timeouts>>

\* user_move_to_uci, lines 212-222.
UserMoveGo ==
    /\ UNCHANGED <<gameEvents, running_flag, appending>>
    /\ callerPc = "cont" /\ callerAt = "um"
    /\ LET go == IF uci_mode = ENGINE_ANALYSIS
                 THEN Cmd("go infinite") ELSE Cmd("go wtime btime")
       IN  /\ inq' = write_to_uci(write_to_uci(inq, <<PositionCmd(moves)>>), <<go>>)
           /\ callerFx' = callerFx \o <<WriteFx(<<PositionCmd(moves)>>), WriteFx(<<go>>)>>
    /\ analysing' = IF uci_mode = ENGINE_ANALYSIS THEN TRUE ELSE analysing
    /\ callerPc' = "idle"
    /\ UNCHANGED <<uci_ok, uci_ready, pondering, gameVars, uci_mode, callerAt,
                   moves, readerVars, outq, engineVars, waitExit, games, userMoves, timeouts>>

-----------------------------------------------------------------------------
(* The reader thread: parse_uci_buffer dispatches the scanner's events *)

ReaderTakes(k) ==
    /\ readerPc = "read"
    /\ outq # <<>>
    /\ Head(outq).k \in k
    /\ outq' = Tail(outq)
    /\ gameEvents' = IF Head(outq).k \in {"UCI_BEST_MOVE", "UCI_BEST_MOVE_WITH_PONDER"}
                     THEN Append(gameEvents, BestMoveEvent(Head(outq).move))
                     ELSE gameEvents
    /\ UNCHANGED <<running_flag, appending>>

\* Lines 442-445.
OnUciOk ==
    /\ ReaderTakes({"UCI_OK"})
    /\ uci_ok' = TRUE
    /\ UNCHANGED <<readerFx, lastEvent, uci_ready, pondering, analysing, gameVars, uci_mode, engine_name,
                   promo_type, last_move, callerVars, readerPc, ponderMove, inq,
                   engineVars, guiMoves, nEngineAppends, readyFrom>>

\* Lines 446-449.
OnUciReady ==
    /\ ReaderTakes({"UCI_READY"})
    /\ uci_ready' = TRUE
    /\ readyFrom' = Head(outq).cur
    /\ UNCHANGED <<readerFx, lastEvent, uci_ok, pondering, analysing, gameVars, uci_mode, engine_name,
                   promo_type, last_move, callerVars, readerPc, ponderMove, inq,
                   engineVars, guiMoves, nEngineAppends>>

\* Lines 450-454.
OnIdName ==
    /\ ReaderTakes({"UCI_ID_NAME"})
    /\ engine_name' = "Stockfish"
    /\ UNCHANGED <<readerFx, lastEvent, uci_ok, uci_ready, pondering, analysing, gameVars, uci_mode,
                   promo_type, last_move, callerVars, readerPc, ponderMove, inq,
                   engineVars, guiMoves, nEngineAppends, readyFrom>>

\* Lines 455-464 and 477-480: author, option, bestmove (none), line feed,
\* empty line, anything else.
OnIgnored ==
    /\ ReaderTakes({"UCI_ID_AUTHOR", "UCI_OPTION", "UCI_BEST_MOVE_NONE",
                    "LINE_FEED", "EMPTY_LINE", "OTHER"})
    /\ UNCHANGED <<readerFx, lastEvent, progVars, callerVars, readerPc, ponderMove, inq,
                   engineVars, guiMoves, nEngineAppends, readyFrom>>

\* Lines 245-255 and 288-298: the best move is skipped.
SkipBestMove ==
    /\ pondering' = FALSE
    /\ readerFx' = <<>>
    /\ lastEvent' = IF pondering THEN "skip_pondering" ELSE "skip_analysis"
    /\ UNCHANGED <<uci_ok, uci_ready, analysing, gameVars, uci_mode, engine_name,
                   promo_type, last_move, callerVars, readerPc, ponderMove, inq,
                   engineVars, guiMoves, nEngineAppends, readyFrom>>

\* Lines 257-279 and 300-324: the best move is taken as the engine's move.
TakeBestMove(bestMove, sup) ==
    LET a == append_move(all_moves, to_play, ply_num, bestMove, TRUE)
    IN  /\ promo_type' = promotion_of(bestMove, promo_type)
        /\ all_moves' = a.all_moves
        /\ to_play' = a.to_play
        /\ ply_num' = a.ply_num
        /\ last_move' = bestMove
        /\ readerFx' = a.fx \o [i \in 1..(Len(got_uci_move(guiMoves, bestMove)) - Len(guiMoves))
                                  |-> GuiFx(bestMove)]
        /\ guiMoves' = got_uci_move(guiMoves, bestMove)
        /\ nEngineAppends' = nEngineAppends + 1
        /\ lastEvent' = IF sup THEN "accepted_sup" ELSE "accepted"
        /\ UNCHANGED <<uci_ok, uci_ready, pondering, analysing, uci_mode,
                       engine_name, callerVars, inq, engineVars, readyFrom>>

\* parse_move, lines 240-280.
ParseMove ==
    /\ ReaderTakes({"UCI_BEST_MOVE"})
    /\ IF skips_best_move(pondering, uci_mode)
       THEN SkipBestMove
       ELSE TakeBestMove(Head(outq).move, Head(outq).sup)
    /\ UNCHANGED <<readerPc, ponderMove>>

\* parse_move_with_ponder, lines 282-324.
ParseMoveWithPonder ==
    /\ ReaderTakes({"UCI_BEST_MOVE_WITH_PONDER"})
    /\ IF skips_best_move(pondering, uci_mode)
       THEN SkipBestMove /\ UNCHANGED <<readerPc, ponderMove>>
       ELSE /\ TakeBestMove(Head(outq).move, Head(outq).sup)
            /\ readerPc' = "ponder_tail"
            /\ ponderMove' = Head(outq).ponder

\* parse_move_with_ponder, lines 326-331.
PonderTail ==
    /\ UNCHANGED <<gameEvents, running_flag, appending>>
    /\ readerPc = "ponder_tail"
    /\ LET pp == ponder_position(all_moves, ponderMove)
           pos == <<pp.cmd>>
           go == <<Cmd("go ponder")>>
       IN  /\ inq' = write_to_uci(write_to_uci(inq, pos), go)
           /\ readerFx' = readerFx \o <<WriteFx(pos), WriteFx(go)>>
           /\ all_moves' = pp.all_moves
    /\ pondering' = TRUE
    /\ readerPc' = "read"
    /\ ponderMove' = NoMove
    /\ UNCHANGED <<uci_ok, uci_ready, analysing, ply_num, to_play, uci_mode, engine_name,
                   promo_type, last_move, callerVars, outq, engineVars, guiMoves,
                   nEngineAppends, readyFrom, lastEvent>>

-----------------------------------------------------------------------------
(* The engine: /usr/bin/stockfish behind the pipes (line 101) *)

EngineTakes(cs) ==
    /\ engineAlive
    /\ inq # <<>>
    /\ Head(inq).cmd \in cs
    /\ inq' = Tail(inq)

\* "uci": identification, options, then uciok.
EngineUci ==
    /\ UNCHANGED <<gameEvents, running_flag, appending>>
    /\ EngineTakes({"uci"})
    /\ outq' = outq \o <<Line("UCI_ID_NAME"), Line("UCI_ID_AUTHOR"),
                         Line("UCI_OPTION"), Line("UCI_OK")>>
    /\ UNCHANGED <<progVars, callerVars, readerVars, engineVars>>

\* "isready": answered at once, also during a search.
EngineIsReady ==
    /\ UNCHANGED <<gameEvents, running_flag, appending>>
    /\ EngineTakes({"isready"})
    /\ outq' = Append(outq, [Line("UCI_READY") EXCEPT !.cur = Head(inq).cur])
    /\ UNCHANGED <<progVars, callerVars, readerVars, engineVars>>

\* "ucinewgame" waits for a running search to finish.
EngineNewGame ==
    /\ UNCHANGED <<gameEvents, running_flag, appending>>
    /\ search = "none"
    /\ EngineTakes({"ucinewgame"})
    /\ UNCHANGED <<progVars, callerVars, readerVars, engineVars, outq>>

\* "go ...": waits for a running search to finish, then starts the next.
EngineGo ==
    /\ UNCHANGED <<gameEvents, running_flag, appending>>
    /\ search = "none"
    /\ EngineTakes({"go wtime btime", "go infinite", "go ponder"})
    /\ search' = CASE Head(inq).cmd = "go wtime btime" -> "timed"
                   [] Head(inq).cmd = "go infinite" -> "infinite"
                   [] Head(inq).cmd = "go ponder" -> "ponder"
    /\ stopReq' = FALSE
    /\ UNCHANGED <<progVars, callerVars, readerVars, engineAlive, outq>>

\* "stop": asks the running search, if any, to end.
EngineStop ==
    /\ UNCHANGED <<gameEvents, running_flag, appending>>
    /\ EngineTakes({"stop"})
    /\ stopReq' = (search # "none")
    /\ UNCHANGED <<progVars, callerVars, readerVars, search, engineAlive, outq>>

\* A search ends with a bestmove line: a timed search on its own, a ponder
\* or an infinite search only once it was stopped.  The line of a ponder or
\* infinite search is the line of a superseded search.
EngineBestMove(m, p) ==
    /\ UNCHANGED <<gameEvents, running_flag, appending>>
    /\ engineAlive
    /\ search # "none"
    /\ search = "timed" \/ stopReq
    /\ LET sup == search \in {"ponder", "infinite"}
       IN  outq' = Append(outq, IF p = NoMove THEN BestMoveLine(m, sup)
                                ELSE BestMovePonderLine(m, p, sup))
    /\ search' = "none"
    /\ stopReq' = FALSE
    /\ UNCHANGED <<progVars, callerVars, readerVars, engineAlive, inq>>

-----------------------------------------------------------------------------

Caller ==
    \/ SpawnUciEngine
    \/ SpawnConfigure
    \/ WaitReady
    \/ WaitTimeout
    \/ SpawnReturn
    \/ \E mode \in UCI_MODE : StartNewGame(mode)
    \/ NewGameReset
    \/ NewGameGo
    \/ \E move \in UserTokens : UserMoveToUci(move)
    \/ UserMoveGo

Reader ==
    \/ OnUciOk
    \/ OnUciReady
    \/ OnIdName
    \/ OnIgnored
    \/ ParseMove
    \/ ParseMoveWithPonder
    \/ PonderTail

Engine ==
    \/ EngineUci
    \/ EngineIsReady
    \/ EngineNewGame
    \/ EngineGo
    \/ EngineStop
    \/ \E m \in EngineTokens, p \in PonderTokens \cup {NoMove} : EngineBestMove(m, p)

Next == Caller \/ Reader \/ Engine

Spec == Init /\ [][Next]_vars

\* The threads are scheduled: the caller leaves its polling loop when it can
\* and goes on with its operation, the reader handles the lines it has.
\* Nothing is assumed of the engine.
Continue == SpawnReturn \/ NewGameReset \/ NewGameGo \/ UserMoveGo

FairSpec ==
    /\ Spec
    /\ WF_vars(WaitReady) /\ WF_vars(WaitTimeout) /\ WF_vars(Continue)
    /\ WF_vars(Reader)

\* The engine of line 101 as it is meant to behave: it stays alive, reads
\* what it is sent as soon as it can, and ends every timed or stopped search
\* with a bestmove line.
EngineEnds == \E m \in EngineTokens, p \in PonderTokens \cup {NoMove} : EngineBestMove(m, p)

FairEngineSpec ==
    /\ FairSpec
    /\ WF_vars(Engine) /\ WF_vars(EngineEnds)

-----------------------------------------------------------------------------
(* The adapter with an engine that may die: from then on every write fails *)

\* The engine process ends; what it had not read or not sent is lost to it,
\* what it had sent can still be read.
EngineDies ==
    /\ engineAlive
    /\ readerPc # "off"
    /\ engineAlive' = FALSE
    /\ UNCHANGED <<progVars, callerVars, readerVars, inq, outq, search, stopReq,
                   gameEvents, running_flag, appending>>

NextFail == Next \/ EngineDies

SpecFail == Init /\ [][NextFail]_vars

-----------------------------------------------------------------------------
(* Search info: the reader thread is handed one info event in a running game *)

\* A game is on in some mode, with either side to move, the engine searches
\* and one info event of it is on uci_out.
InitInfo ==
    /\ uci_ok = TRUE /\ uci_ready = TRUE
    /\ uci_mode \in UCI_MODE
    /\ to_play \in {0, 1}
    /\ all_moves = (IF to_play = 0 THEN <<>> ELSE <<E2E4>>)
    /\ ply_num = to_play + 1
    /\ pondering = FALSE /\ analysing = (uci_mode = ENGINE_ANALYSIS)
    /\ engine_name = "" /\ promo_type = "NONE" /\ last_move = NoMove
    /\ callerPc = "idle" /\ callerAt = "ng2" /\ moves = <<>>
    /\ readerPc = "read" /\ ponderMove = NoMove
    /\ inq = <<>>
    /\ \E info \in InfoLines : outq = <<info>>
    /\ search = (IF uci_mode = ENGINE_ANALYSIS THEN "infinite" ELSE "timed")
    /\ stopReq = FALSE /\ engineAlive = TRUE
    /\ callerFx = <<>> /\ readerFx = <<>>
    /\ guiMoves = <<>> /\ nEngineAppends = 0
    /\ waitExit = "ready" /\ readyFrom = TRUE /\ lastEvent = "none"
    /\ gameEvents = <<>>
    /\ games = 1 /\ userMoves = to_play /\ timeouts = 0
    /\ running_flag = TRUE
    /\ appending = NotAppending

\* Lines 471-474: an info event is handed to parse_info.
ParseInfo ==
    /\ ReaderTakes({"UCI_INFO"})
    /\ readerFx' = readerFx \o parse_info(Head(outq), uci_mode, to_play)
    /\ UNCHANGED <<uci_ok, uci_ready, pondering, analysing, gameVars, uci_mode,
                   engine_name, promo_type, last_move, callerVars, readerPc,
                   ponderMove, inq, engineVars, guiMoves, nEngineAppends,
                   readyFrom, lastEvent>>

NextInfo == ParseInfo

SpecInfo == InitInfo /\ [][NextInfo]_vars

-----------------------------------------------------------------------------
(* Best moves: the reader thread is handed one best-move event in a game *)

\* "e1g1", "e7e8r", "e7e8b", "e7e8n": with E7E5 and E7E8Q, best moves of
\* four characters and of five.
E1G1 == <<101, 49, 103, 49>>
E7E8R == <<101, 55, 101, 56, 114>>
E7E8B == <<101, 55, 101, 56, 98>>
E7E8N == <<101, 55, 101, 56, 110>>
BestMoveTokens == {E7E5, E1G1, E7E8Q, E7E8R, E7E8B, E7E8N}
PieceTypes == {"NONE", "QUEEN", "ROOK", "BISHOP", "KNIGHT"}

\* A game is on, with no move or one move played and some promotion piece
\* left by an earlier move; the engine's search has ended and its best-move
\* line, bare or with a ponder move, is on uci_out.
InitMoves ==
    /\ uci_ok = TRUE /\ uci_ready = TRUE
    /\ uci_mode \in UCI_MODE
    /\ pondering \in BOOLEAN
    /\ analysing = (uci_mode = ENGINE_ANALYSIS)
    /\ to_play \in {0, 1}
    /\ all_moves = (IF to_play = 0 THEN <<>> ELSE <<E2E4>>)
    /\ ply_num = to_play + 1
    /\ engine_name = "" /\ last_move = NoMove
    /\ promo_type \in PieceTypes
    /\ callerPc = "idle" /\ callerAt = "ng2" /\ moves = <<>>
    /\ readerPc = "read" /\ ponderMove = NoMove
    /\ inq = <<>>
    /\ \E m \in BestMoveTokens, p \in PonderTokens \cup {NoMove}, s \in BOOLEAN :
          outq = <<IF p = NoMove THEN BestMoveLine(m, s) ELSE BestMovePonderLine(m, p, s)>>
    /\ search = "none" /\ stopReq = FALSE /\ engineAlive = TRUE
    /\ callerFx = <<>> /\ readerFx = <<>>
    /\ guiMoves = <<>> /\ nEngineAppends = 0
    /\ waitExit = "ready" /\ readyFrom = TRUE /\ lastEvent = "none"
    /\ gameEvents = <<>>
    /\ games = 1 /\ userMoves = to_play /\ timeouts = 0
    /\ running_flag = TRUE
    /\ appending = NotAppending

NextMoves == ParseMove \/ ParseMoveWithPonder \/ PonderTail

SpecMoves == InitMoves /\ [][NextMoves]_vars

-----------------------------------------------------------------------------
(* The reader loop: parse_uci_function over reads that bring lines or fail *)

ChunkLines ==
    {Line("UCI_OK"), Line("UCI_READY"), Line("UCI_ID_NAME"), Line("UCI_ID_AUTHOR"),
     Line("UCI_OPTION"), Line("UCI_BEST_MOVE_NONE"),
     Line("LINE_FEED"), Line("EMPTY_LINE"), Line("OTHER"),
     BestMoveLine(E7E5, FALSE), BestMovePonderLine(E7E8Q, G1F3, FALSE),
     InfoLine(<<0 - 35>>, <<>>, <<"e7e5 g1f3">>, <<240000>>)}
Chunks == UNION {[1..n -> ChunkLines] : n \in 0..MaxChunk}

\* The reader thread runs, a game is on, and uci_out holds what the engine
\* has sent so far.
InitReader ==
    /\ uci_ok = TRUE /\ uci_ready \in BOOLEAN
    /\ uci_mode \in UCI_MODE
    /\ pondering \in BOOLEAN
    /\ analysing = (uci_mode = ENGINE_ANALYSIS)
    /\ to_play = 0 /\ all_moves = <<>> /\ ply_num = 1
    /\ engine_name = "" /\ last_move = NoMove /\ promo_type = "NONE"
    /\ callerPc = "idle" /\ callerAt = "ng2" /\ moves = <<>>
    /\ readerPc = "read" /\ ponderMove = NoMove
    /\ inq = <<>>
    /\ outq \in Chunks
    /\ search = "none" /\ stopReq = FALSE /\ engineAlive \in BOOLEAN
    /\ callerFx = <<>> /\ readerFx = <<>>
    /\ guiMoves = <<>> /\ nEngineAppends = 0
    /\ waitExit = "ready" /\ readyFrom = TRUE /\ lastEvent = "none"
    /\ gameEvents = <<>>
    /\ games = 1 /\ userMoves = 0 /\ timeouts = 0
    /\ running_flag = TRUE
    /\ appending = NotAppending

ReadFailsEndsLoop ==
    /\ readerPc = "read"
    /\ running_flag
    /\ readerPc' = "closed"
    /\ lastEvent' = "read_failed"
    /\ UNCHANGED <<progVars, callerVars, ponderMove, inq, outq, engineVars,
                   readerFx, guiMoves, nEngineAppends, readyFrom, gameEvents,
                   running_flag, appending>>

\* parse_uci_buffer, lines 431-436: read() brings nothing (end of file, an
\* error); it is logged, the thread sleeps a second and the loop goes on.
ReadFails ==
    /\ readerPc = "read"
    /\ running_flag
    /\ lastEvent' = "read_failed"
    /\ UNCHANGED <<progVars, callerVars, readerPc, ponderMove, inq, outq, engineVars,
                   readerFx, guiMoves, nEngineAppends, readyFrom, gameEvents,
                   running_flag, appending>>

\* The flag is cleared elsewhere in the program, when it shuts down.
ClearRunningFlag ==
    /\ running_flag
    /\ running_flag' = FALSE
    /\ UNCHANGED <<progVars, callerVars, readerVars, inq, outq, engineVars, gameEvents,
                   appending>>

\* parse_uci_function, lines 488-493: the loop test finds the flag cleared.
ReaderLoopEnds ==
    /\ readerPc = "read"
    /\ ~running_flag
    /\ readerPc' = "closed"
    /\ UNCHANGED <<progVars, callerVars, ponderMove, inq, outq, engineVars,
                   readerFx, guiMoves, nEngineAppends, readyFrom, lastEvent,
                   gameEvents, running_flag, appending>>

NextReader ==
    \/ ReadFails
    \/ OnUciOk
    \/ OnUciReady
    \/ OnIdName
    \/ OnIgnored
    \/ ParseMove
    \/ ParseMoveWithPonder
    \/ PonderTail
    \/ ParseInfo
    \/ ClearRunningFlag
    \/ ReaderLoopEnds

SpecReader == InitReader /\ [][NextReader]_vars

-----------------------------------------------------------------------------
(* append_move step by step: user_move_to_uci (line 202) on the caller's
   thread and parse_move or parse_move_with_ponder (lines 275, 321) on the
   reader's thread are both inside it.  The function takes no lock: its reads
   and writes of all_moves, to_play and ply_num interleave freely.  One memcpy
   is taken as one step, so torn tokens are left out. *)

BaseHistories == {<<>>, <<E2E4>>, <<E2E4, E7E5>>}

\* Both threads are about to run line 180 in a game of Len(h) plies.
InitAppend ==
    /\ uci_ok = TRUE /\ uci_ready = TRUE
    /\ uci_mode \in {ENGINE_WHITE, ENGINE_BLACK}
    /\ pondering = FALSE /\ analysing = FALSE
    /\ all_moves \in BaseHistories
    /\ to_play = Len(all_moves) % 2
    /\ ply_num = Len(all_moves) + 1
    /\ engine_name = "" /\ last_move = NoMove /\ promo_type = "QUEEN"
    /\ callerPc = "idle" /\ callerAt = "um" /\ moves = <<>>
    /\ readerPc = "read" /\ ponderMove = NoMove
    /\ inq = <<>> /\ outq = <<>>
    /\ search = "none" /\ stopReq = FALSE /\ engineAlive = TRUE
    /\ callerFx = <<>> /\ readerFx = <<>>
    /\ guiMoves = <<>> /\ nEngineAppends = 0
    /\ waitExit = "none" /\ readyFrom = FALSE /\ lastEvent = "none"
    /\ gameEvents = [i \in 1..Len(all_moves) |->
                       IF (i % 2 = 1) = (uci_mode = ENGINE_WHITE)
                       THEN BestMoveEvent(all_moves[i]) ELSE UserEvent(all_moves[i])]
    /\ games = 1 /\ userMoves = 0 /\ timeouts = 0
    /\ running_flag = TRUE
    /\ \E u \in UserTokens, e \in EngineTokens :
          appending = [t \in Threads |->
                         IF t = "caller" THEN AppendLocal("strlen", u, FALSE)
                         ELSE AppendLocal("strlen", e, TRUE)]

appendFrame == <<uci_ok, uci_ready, pondering, analysing, uci_mode, engine_name,
                 promo_type, last_move, callerPc, callerAt, moves, readerPc,
                 ponderMove, inq, outq, engineVars, guiMoves, nEngineAppends,
                 waitExit, readyFrom, lastEvent, gameEvents, games, userMoves,
                 timeouts, running_flag>>

\* Line 181: movesLength = strlen(all_moves).
AppendStrlen(t) ==
    /\ appending[t].pc = "strlen"
    /\ appending' = [appending EXCEPT ![t].pc = "memcpy",
                                      ![t].movesLength = Len(all_moves)]
    /\ UNCHANGED <<appendFrame, gameVars, callerFx, readerFx>>

\* Lines 182-183: the blank and the token, with its terminating null, are
\* written at the length read before.
AppendMemcpy(t) ==
    /\ appending[t].pc = "memcpy"
    /\ all_moves' = Append(SubSeq(all_moves, 1, appending[t].movesLength),
                           appending[t].new_move)
    /\ appending' = [appending EXCEPT ![t].pc = "to_play_read"]
    /\ UNCHANGED <<appendFrame, ply_num, to_play, callerFx, readerFx>>

\* Line 184, the read of to_play.
AppendToPlayRead(t) ==
    /\ appending[t].pc = "to_play_read"
    /\ appending' = [appending EXCEPT ![t].pc = "to_play_write",
                                      ![t].to_play = to_play]
    /\ UNCHANGED <<appendFrame, gameVars, callerFx, readerFx>>

\* Line 184, the write of to_play.
AppendToPlayWrite(t) ==
    /\ appending[t].pc = "to_play_write"
    /\ to_play' = (IF appending[t].to_play # 0 THEN 0 ELSE 1)
    /\ appending' = [appending EXCEPT ![t].pc = "clock"]
    /\ UNCHANGED <<appendFrame, ply_num, all_moves, callerFx, readerFx>>

\* Lines 187-193: the clock calls.
AppendClock(t) ==
    /\ appending[t].pc = "clock"
    /\ LET fx == IF ics_mode THEN <<>>
                 ELSE IF ply_num = 1
                      THEN <<ClockFx("start_one_clock", to_play, FALSE)>>
                 ELSE IF ply_num > 1
                      THEN <<ClockFx("start_one_stop_other_clock", to_play,
                                     appending[t].lock_threads)>>
                 ELSE <<>>
       IN  /\ callerFx' = (IF t = "caller" THEN callerFx \o fx ELSE callerFx)
           /\ readerFx' = (IF t = "reader" THEN readerFx \o fx ELSE readerFx)
    /\ appending' = [appending EXCEPT ![t].pc = "ply_read"]
    /\ UNCHANGED <<appendFrame, gameVars>>

\* Line 195, the read of ply_num.
AppendPlyRead(t) ==
    /\ appending[t].pc = "ply_read"
    /\ appending' = [appending EXCEPT ![t].pc = "ply_write",
                                      ![t].ply_num = ply_num]
    /\ UNCHANGED <<appendFrame, gameVars, callerFx, readerFx>>

\* Line 195, the write of ply_num.
AppendPlyWrite(t) ==
    /\ appending[t].pc = "ply_write"
    /\ ply_num' = appending[t].ply_num + 1
    /\ appending' = [appending EXCEPT ![t].pc = "out"]
    /\ UNCHANGED <<appendFrame, to_play, all_moves, callerFx, readerFx>>

NextAppend ==
    \E t \in Threads :
        \/ AppendStrlen(t)
        \/ AppendMemcpy(t)
        \/ AppendToPlayRead(t)
        \/ AppendToPlayWrite(t)
        \/ AppendClock(t)
        \/ AppendPlyRead(t)
        \/ AppendPlyWrite(t)

SpecAppend == InitAppend /\ [][NextAppend]_vars

-----------------------------------------------------------------------------
(* Properties *)

BestMoveKinds == {"UCI_BEST_MOVE", "UCI_BEST_MOVE_WITH_PONDER"}

\* The reader is about to dispatch a best-move line.
BestMoveNext ==
    /\ readerPc = "read"
    /\ outq # <<>>
    /\ Head(outq).k \in BestMoveKinds

\* This step is the reader dispatching the line at the head of uci_out (no
\* other step shortens it).
Dispatched == readerPc = "read" /\ Len(outq') = Len(outq) - 1

Count(seq, kind) == Cardinality({i \in DOMAIN seq : seq[i].t = kind})

\* A game has begun: the first reset of start_new_uci_game is done.
InGame == games >= 2 \/ (games = 1 /\ callerAt # "ng1")

\* C1: a best-move line (bare or with ponder) dispatched while pondering is
\* set or while the mode is Analysis is discarded: the history, the ply
\* counter, the side to move and the mode stay as they were, nothing is
\* written to the engine, no clock is touched and the GUI gets no signal.
C1_DiscardChangesNothing ==
    [][ (BestMoveNext /\ Dispatched /\ (pondering \/ uci_mode = ENGINE_ANALYSIS))
        => /\ UNCHANGED <<all_moves, ply_num, to_play, uci_mode>>
           /\ inq' = inq
           /\ readerFx' = <<>>
           /\ guiMoves' = guiMoves
           /\ nEngineAppends' = nEngineAppends
           /\ readerPc' = "read" ]_vars

C1_Witness ==
    /\ lastEvent \in {"skip_pondering", "skip_analysis"}
    /\ all_moves # <<>>
    /\ readerFx = <<>>

\* C2: the best move of a superseded search (the reply to the stop of a
\* ponder or of an infinite search) is never taken as the engine's move:
\* never appended to the history, never signalled to the GUI (stated for
\* the runs in which no wait_for_engine ran into its deadline).
C2_SupersededNeverCommitted == ~(lastEvent = "accepted_sup" /\ timeouts = 0)

\* The shape of the game state between operations, and the steps that change the history.
C3_Shape ==
    InGame => /\ to_play = Len(all_moves) % 2
              /\ ply_num = 1 + Len(all_moves)

C3_Step ==
    all_moves' # all_moves
    => \/ /\ \E t \in UserTokens \cup EngineTokens : all_moves' = Append(all_moves, t)
          /\ to_play' = 1 - to_play
          /\ ply_num' = ply_num + 1
          /\ \/ callerPc = "idle" /\ callerPc' = "wait" /\ callerAt' = "um"
             \/ BestMoveNext /\ Dispatched
       \/ /\ all_moves' = <<>>
          /\ to_play' = 0
          /\ callerPc = "cont" /\ callerAt = "ng1"

\* C3: with operations processed one at a time, the history only grows by
\* one token at its end, each append flips the side to move, the history is
\* emptied by start_new_uci_game alone, and within a game
\* to_play = (number of tokens) mod 2 and ply_num = 1 + number of tokens.
C3_AppendOnly == [](C3_Shape) /\ [][C3_Step]_vars

C3_Witness ==
    /\ Len(all_moves) = 3
    /\ callerPc = "idle" /\ readerPc = "read"
    /\ to_play = 1 /\ ply_num = 4

\* The scenario of the claim: user move, then engine move, in an EngineBlack game.
C4_Scenario ==
    (/\ uci_mode = ENGINE_BLACK
     /\ InGame
     /\ callerPc = "idle" /\ readerPc = "read"
     /\ Len(gameEvents) = 2
     /\ gameEvents[1].by = "user" /\ gameEvents[2].by = "engine")
    => /\ all_moves = <<gameEvents[1].move, gameEvents[2].move>>
       /\ to_play = 0
       /\ guiMoves = <<gameEvents[2].move>>

\* C4: in an EngineBlack game, a user move u followed by the line
\* "bestmove e" leaves the history [u, e], the side to move at the first
\* mover and the GUI with one signal, for e.  In every run the GUI gets as
\* many move signals as engine best moves were appended, and none from a
\* user move.
C4_OneSignalPerEngineMove ==
    /\ C4_Scenario
    /\ Len(guiMoves) = nEngineAppends
    /\ Count(callerFx, "gui") = 0
    /\ lastEvent \in {"skip_pondering", "skip_analysis"} => Count(readerFx, "gui") = 0
    /\ lastEvent \in {"accepted", "accepted_sup"} => Count(readerFx, "gui") = 1

C4_Witness ==
    /\ uci_mode = ENGINE_BLACK
    /\ callerPc = "idle" /\ readerPc = "read"
    /\ gameEvents = <<UserEvent(E2E4), BestMoveEvent(E7E5)>>
    /\ all_moves = <<E2E4, E7E5>>
    /\ guiMoves = <<E7E5>>

\* What the calling operation writes once its wait is over.
NextWrites ==
    CASE callerAt = "spawn" -> <<>>
      [] callerAt = "ng1" -> <<WriteFx(<<Cmd("ucinewgame")>>), WriteFx(<<IsReadyCmd>>)>>
      [] callerAt = "ng2" ->
           (CASE uci_mode = ENGINE_WHITE ->
                   <<WriteFx(<<Cmd("position startpos"), Cmd("go wtime btime")>>)>>
              [] uci_mode = ENGINE_BLACK -> <<>>
              [] uci_mode = ENGINE_ANALYSIS ->
                   <<WriteFx(<<Cmd("position startpos"), Cmd("go infinite")>>)>>)
      [] callerAt = "um" ->
           <<WriteFx(<<PositionCmd(moves)>>),
             WriteFx(<<IF uci_mode = ENGINE_ANALYSIS THEN Cmd("go infinite")
                       ELSE Cmd("go wtime btime")>>)>>

\* C5: wait_for_engine always returns, by the flag or by the deadline, and
\* the operation that called it goes on with its next commands, the same
\* after a timeout as after a ready-ok.  (A wait is followed while the
\* model's budget of timeouts is not used up.)
C5_WaitReturns ==
    /\ (callerPc = "wait" /\ timeouts < MaxTimeouts) ~> (callerPc = "cont")
    /\ (callerPc = "cont") ~> (callerPc \in {"idle", "wait"})
    /\ [][ (callerPc = "wait" /\ callerPc' # "wait")
           => /\ callerPc' = "cont"
              /\ UNCHANGED <<progVars, callerFx, inq, callerAt>> ]_vars
    /\ [][ (callerPc = "cont" /\ callerPc' # "cont")
           => callerFx' = callerFx \o NextWrites ]_vars

C5_Witness ==
    /\ waitExit = "timeout"
    /\ callerPc = "idle" /\ callerAt = "um"
    /\ Len(callerFx) >= 2
    /\ callerFx[Len(callerFx)].lines = <<Cmd("go wtime btime")>>

\* C6: when wait_for_engine returns because the flag was set, the engine has
\* consumed the is-ready this call wrote, and the ready-ok that set the flag
\* answers this call, not an earlier one.
C6_ReadyAnswersThisCall ==
    (callerPc = "cont" /\ waitExit \in {"ready", "stale"})
    => /\ \A i \in DOMAIN inq : ~(inq[i].cmd = "isready" /\ inq[i].cur)
       /\ waitExit = "ready"

\* The writes of one start_new_uci_game, as the claim orders them.
NewGameWrites(stopped, mode) ==
    (IF stopped THEN <<WriteFx(<<Cmd("stop")>>)>> ELSE <<>>)
    \o <<WriteFx(<<IsReadyCmd>>), WriteFx(<<Cmd("ucinewgame")>>), WriteFx(<<IsReadyCmd>>)>>
    \o (CASE mode = ENGINE_WHITE ->
               <<WriteFx(<<Cmd("position startpos"), Cmd("go wtime btime")>>)>>
          [] mode = ENGINE_BLACK -> <<>>
          [] mode = ENGINE_ANALYSIS ->
               <<WriteFx(<<Cmd("position startpos"), Cmd("go infinite")>>)>>)

C7_Call ==
    (callerPc = "idle" /\ callerPc' = "wait" /\ callerAt' = "ng1")
    => callerFx' = (IF pondering \/ analysing THEN <<WriteFx(<<Cmd("stop")>>)>> ELSE <<>>)
                   \o <<WriteFx(<<IsReadyCmd>>)>>

C7_Written ==
    (callerPc = "cont" /\ callerAt = "ng2" /\ callerPc' = "idle")
    => \E stopped \in BOOLEAN : callerFx' = NewGameWrites(stopped, uci_mode)

C7_Return ==
    (callerPc = "cont" /\ callerAt = "ng2" /\ callerPc' = "idle" /\ timeouts = 0)
    => /\ all_moves' = <<>>
       /\ to_play' = 0
       /\ ply_num' = 1
       /\ pondering' = FALSE

\* The order of the writes alone.
C7_Order == [][C7_Call /\ C7_Written]_vars

\* C7: start_new_uci_game writes stop exactly when pondering or analysing was
\* set at the call, then is-ready, ucinewgame, is-ready and the mode's
\* search request; when it returns the history is empty, the side to move is
\* the first mover, ply_num is 1 and pondering is clear.  (The state at the
\* return is stated for the runs in which no wait_for_engine ran into its
\* deadline.)
C7_NewGame == [][C7_Call /\ C7_Written /\ C7_Return]_vars

\* The writes of one user_move_to_uci, as the claim orders them.
C8_Call ==
    (callerPc = "idle" /\ callerPc' = "wait" /\ callerAt' = "um")
    => /\ \E m \in UserTokens : all_moves' = Append(all_moves, m)
       /\ moves' = all_moves'
       /\ callerFx' = SelectSeq(callerFx', LAMBDA e : e.t = "clock")
                      \o (IF pondering \/ uci_mode = ENGINE_ANALYSIS
                          THEN <<WriteFx(<<Cmd("stop")>>)>> ELSE <<>>)
                      \o <<WriteFx(<<IsReadyCmd>>)>>

C8_Written ==
    (callerPc = "cont" /\ callerAt = "um" /\ callerPc' = "idle")
    => /\ callerFx' = callerFx \o
            <<WriteFx(<<PositionCmd(moves)>>),
              WriteFx(<<IF uci_mode = ENGINE_ANALYSIS THEN Cmd("go infinite")
                        ELSE Cmd("go wtime btime")>>)>>
       /\ Count(callerFx', "write") \in {3, 4}

\* The user moved when it was the user's turn: in an EngineWhite game after
\* the engine, in an EngineBlack game before it.
InTurn ==
    \/ uci_mode = ENGINE_ANALYSIS
    \/ \A i \in DOMAIN gameEvents :
          gameEvents[i].by = IF (i % 2 = 1) = (uci_mode = ENGINE_WHITE)
                             THEN "engine" ELSE "user"

C8_NoGoOnRunningSearch ==
    (callerPc = "cont" /\ callerAt = "um" /\ callerPc' = "idle"
       /\ timeouts = 0 /\ InTurn)
    => ~(/\ search \in {"ponder", "infinite"}
         /\ \A i \in DOMAIN callerFx : callerFx[i].lines # <<Cmd("stop")>>)

\* The order of the writes alone.
C8_Order == [][C8_Call /\ C8_Written]_vars

\* C8: user_move_to_uci appends the move, then writes stop exactly when
\* pondering is set or the mode is Analysis, is-ready, one position command
\* with the history up to the move, and one search request (infinite in
\* Analysis, timed otherwise); no search request is written while a ponder
\* or an infinite search runs that no stop was written for.  (The last
\* sentence is stated for the runs in which no wait_for_engine ran into its
\* deadline and the user moved in turn.)
C8_UserMove == [][C8_Call /\ C8_Written /\ C8_NoGoOnRunningSearch]_vars

\* The accepting step and the step that starts the ponder search.
C9_Accept ==
    (BestMoveNext /\ Dispatched /\ ~(pondering \/ uci_mode = ENGINE_ANALYSIS))
    => /\ all_moves' = Append(all_moves, Head(outq).move)
       /\ to_play' = 1 - to_play
       /\ ply_num' = ply_num + 1
       /\ guiMoves' = Append(guiMoves, Head(outq).move)
       /\ Count(readerFx', "gui") = 1 /\ Count(readerFx', "write") = 0
       /\ pondering' = pondering
       /\ inq' = inq
       /\ IF Head(outq).k = "UCI_BEST_MOVE_WITH_PONDER"
          THEN readerPc' = "ponder_tail" /\ ponderMove' = Head(outq).ponder
          ELSE readerPc' = "read"

C9_Tail ==
    (readerPc = "ponder_tail" /\ readerPc' # "ponder_tail")
    => /\ readerFx' = readerFx \o
            <<WriteFx(<<PositionCmd(Append(all_moves, ponderMove))>>),
              WriteFx(<<Cmd("go ponder")>>)>>
       /\ pondering' = TRUE
       /\ UNCHANGED <<all_moves, to_play, ply_num, guiMoves>>
       /\ readerPc' = "read"

\* C9: an accepted best move with ponder is taken as a bare best move is
\* (appended once, side flipped once, one GUI signal); then one position
\* command, the history followed by the ponder move, and "go ponder" are
\* written and pondering is set; the ponder move never enters the history.
C9_BestMoveWithPonder ==
    /\ [](\A i \in DOMAIN all_moves : all_moves[i] \notin PonderTokens)
    /\ [][C9_Accept /\ C9_Tail]_vars

C9_Witness ==
    /\ pondering
    /\ readerPc = "read"
    /\ Len(readerFx) >= 3
    /\ readerFx[Len(readerFx)].lines = <<Cmd("go ponder")>>
    /\ readerFx[Len(readerFx) - 1].lines = <<PositionCmd(Append(all_moves, G1F3))>>
    /\ all_moves # <<>>
    /\ last_move = all_moves[Len(all_moves)]

\* The condition of the claim, and the score the step displays.
C10_Negated ==
    \/ uci_mode = ENGINE_BLACK
    \/ uci_mode = ENGINE_ANALYSIS /\ to_play = 1

C10_Shown == SelectSeq(readerFx', LAMBDA fx : fx.what = "score")

C10_Step ==
    (outq # <<>> /\ outq' = <<>>)
    => LET info == Head(outq)
           V == IF info.cp # <<>> THEN info.cp[1] ELSE info.mate[1]
           text(v) == IF info.cp # <<>> THEN score_cp_string(v)
                      ELSE score_mate_string(v)
       IN  (info.cp # <<>> \/ info.mate # <<>>)
           => /\ Len(C10_Shown) = 1
              /\ C10_Shown[1].lines[1] = text(IF C10_Negated THEN 0 - V ELSE V)
              /\ V # 0 => (C10_Shown[1].lines[1] = text(0 - V) <=> C10_Negated)
              /\ V # 0 => (C10_Shown[1].lines[1] = text(V) <=> ~C10_Negated)

\* C10: whatever the raw centipawn or mate value V of an info event, the mode
\* and the side to move, the score displayed is that of -V exactly when the
\* mode is EngineBlack, or the mode is Analysis and the second mover is to
\* move, and that of V otherwise; a centipawn score is shown as value/100
\* with two decimals, a mate score as '#' and the signed integer.
C10_ScoreSign == [][C10_Step]_vars

\* The event "info depth 12 score cp -35 nps 240000 pv e7e5 g1f3" was handled
\* in an EngineBlack game: the score shown is that of 35.
C10_Witness ==
    /\ uci_mode = ENGINE_BLACK
    /\ readerFx = <<DisplayFx("score", "0.35"),
                    DisplayFx("best_line", "e7e5 g1f3"),
                    DisplayFx("nodes_per_second", "240 kNps")>>

\* The same event in an EngineWhite game is shown as it came.
C10_WitnessWhite ==
    /\ uci_mode = ENGINE_WHITE
    /\ readerFx = <<DisplayFx("score", "-0.35"),
                    DisplayFx("best_line", "e7e5 g1f3"),
                    DisplayFx("nodes_per_second", "240 kNps")>>

\* A mate in 3 found with the second mover to move in analysis.
C10_WitnessMate ==
    /\ uci_mode = ENGINE_ANALYSIS /\ to_play = 1
    /\ readerFx = <<DisplayFx("score", "#-3")>>

\* C11: an accepted best move of four characters or fewer derives no
\* promotion piece and leaves the stored one as it was; an accepted best move
\* of five characters sets it to the piece kind of the fifth character
\* shifted to upper case (its code minus 32); the token is appended to the
\* history as it came, suffix included.
C11_Promotion ==
    [][ (BestMoveNext /\ Dispatched /\ ~(pondering \/ uci_mode = ENGINE_ANALYSIS))
        => LET m == Head(outq).move
           IN  /\ Len(m) <= 4 => promo_type' = promo_type
               /\ Len(m) = 5 => promo_type' = char_to_type(m[5] - 32)
               /\ m = E7E8Q => promo_type' = "QUEEN"
               /\ all_moves' = Append(all_moves, m)
               /\ last_move' = m ]_vars

\* A knight promotion was accepted after a move that had left a queen.
C11_Witness ==
    /\ promo_type = "KNIGHT"
    /\ all_moves = <<E2E4, E7E8N>>
    /\ lastEvent \in {"accepted", "accepted_sup"}

\* A four-character best move was accepted and the stored rook stays.
C11_WitnessKept ==
    /\ promo_type = "ROOK"
    /\ all_moves = <<E1G1>>
    /\ lastEvent \in {"accepted", "accepted_sup"}

\* The kinds parse_uci_buffer does nothing for.
C12_IgnoredKinds == {"LINE_FEED", "EMPTY_LINE", "OTHER"}

\* What the handler of the line at the head of uci_out does.
C12_Handled ==
    LET line == Head(outq)
    IN  CASE line.k = "UCI_OK" -> uci_ok' = TRUE
          [] line.k = "UCI_READY" -> uci_ready' = TRUE
          [] line.k = "UCI_ID_NAME" -> engine_name' = "Stockfish"
          [] line.k \in BestMoveKinds ->
               /\ gameEvents' = Append(gameEvents, BestMoveEvent(line.move))
               /\ lastEvent' \in {"accepted", "skip_pondering", "skip_analysis"}
          [] line.k = "UCI_INFO" ->
               readerFx' = readerFx \o parse_info(line, uci_mode, to_play)
          [] line.k \in C12_IgnoredKinds ->
               UNCHANGED <<progVars, inq, readerFx, guiMoves, nEngineAppends,
                           readerPc, lastEvent, gameEvents>>
          [] OTHER -> UNCHANGED <<progVars, inq>>

\* C12: the reader loop does not end while the liveness flag is set; a read
\* that brings nothing changes no state of the session, dispatches nothing
\* and leaves the loop at its next read; the lines of a chunk are dispatched
\* in their order, and line feeds, empty lines and unrecognized lines change
\* no state.
C12_ReaderLoop ==
    /\ [](readerPc = "closed" => ~running_flag)
    /\ [][ /\ (lastEvent' = "read_failed" /\ lastEvent # "read_failed")
               => /\ UNCHANGED <<progVars, inq, outq, readerFx, guiMoves,
                                 nEngineAppends, gameEvents>>
                  /\ readerPc' = "read"
           /\ outq' # outq => (outq' = Tail(outq) /\ C12_Handled) ]_vars

\* A read brought a best move and an empty line, the next read failed, the
\* flag was cleared and the loop ended.
C12_Witness ==
    /\ readerPc = "closed"
    /\ lastEvent = "read_failed"
    /\ outq = <<>>
    /\ uci_mode = ENGINE_WHITE
    /\ all_moves = <<E7E5>> /\ guiMoves = <<E7E5>>

\* What each step of the caller does, whether its writes reach the engine or
\* not: the first write of spawn_uci_engine, the end of a wait, the commands
\* after it, the reset of start_new_uci_game.
C13_CallerSteps ==
    /\ (callerPc = "start" /\ callerPc' # "start")
       => callerFx' = <<WriteFx(<<Cmd("uci")>>)>> /\ callerPc' = "uciok_wait"
    /\ (callerPc = "uciok_wait" /\ callerPc' # "uciok_wait")
       => /\ callerFx' = callerFx \o [i \in 1..4 |-> WriteFx(SetOptions[i])]
                                  \o <<WriteFx(<<IsReadyCmd>>)>>
          /\ callerPc' = "wait"
    /\ (callerPc = "wait" /\ callerPc' # "wait")
       => callerPc' = "cont" /\ UNCHANGED <<progVars, callerFx, inq, callerAt>>
    /\ (callerPc = "cont" /\ callerPc' # "cont")
       => callerFx' = callerFx \o NextWrites
    /\ (callerPc = "cont" /\ callerAt = "ng1" /\ callerPc' # "cont")
       => /\ all_moves' = <<>> /\ to_play' = 0 /\ ply_num' = 1
          /\ pondering' = FALSE

\* C13: a write that fails is not retried and not reported: nothing of it
\* reaches the engine later, and spawn, new game, user move, the wait and the
\* acceptance of a best move change the state and write their later
\* commands as they do when every write succeeds.
C13_FailedWrite ==
    /\ [][~engineAlive => Stale(inq') = Stale(inq)]_vars
    /\ [][ /\ C13_CallerSteps
           /\ C7_Call /\ C7_Written
           /\ C8_Call /\ C8_Written
           /\ C9_Accept /\ C9_Tail ]_vars

\* Every write of a user move failed (the engine was gone): the wait ran
\* into its deadline and the position and the search request were written
\* all the same.
C13_Witness ==
    /\ ~engineAlive
    /\ inq = <<>>
    /\ callerPc = "idle" /\ callerAt = "um"
    /\ waitExit = "timeout"
    /\ callerFx[Len(callerFx)].lines = <<Cmd("go wtime btime")>>
    /\ callerFx[Len(callerFx) - 1].lines = <<PositionCmd(all_moves)>>

\* The ponder commands of an accepted best move were written to an engine
\* that was gone, and pondering is set all the same.
C13_WitnessReader ==
    /\ ~engineAlive
    /\ inq = <<>>
    /\ pondering /\ readerPc = "read"
    /\ Len(readerFx) >= 2
    /\ readerFx[Len(readerFx)].lines = <<Cmd("go ponder")>>

\* The caller is in no operation, the reader has handled every line the
\* engine sent and the engine has read every command written to it.
Quiescent ==
    /\ callerPc = "idle"
    /\ readerPc = "read"
    /\ outq = <<>>
    /\ inq = <<>>

\* C14: whenever the caller is in no operation and the reader has consumed
\* all engine output (and the engine all commands), pondering is set exactly
\* when the engine's current search is one started by "go ponder" that has
\* not been stopped.  (Stated for the runs in which no wait_for_engine ran
\* into its deadline.)
C14_PonderingTellsSearch ==
    (Quiescent /\ timeouts = 0)
    => (pondering <=> (search = "ponder" /\ ~stopReq))

C14_Witness ==
    /\ Quiescent
    /\ pondering
    /\ search = "ponder" /\ ~stopReq
    /\ all_moves # <<>>

\* An operation of a game has returned and no other has begun.
Returned == callerPc = "idle" /\ games >= 1

\* C15: analysing is set exactly when the engine runs an infinite search: it
\* is set once start_new_uci_game or user_move_to_uci has written
\* "go infinite" in Analysis mode, and it is clear once start_new_uci_game
\* with mode EngineWhite or EngineBlack has returned, also after an Analysis
\* game.  (Stated for the runs in which no wait_for_engine ran into its
\* deadline.)
C15_AnalysingTellsSearch ==
    (Returned /\ timeouts = 0)
    => /\ uci_mode = ENGINE_ANALYSIS => analysing
       /\ uci_mode \in {ENGINE_WHITE, ENGINE_BLACK} => ~analysing

\* The first half of C15 alone: analysing is set once "go infinite" is out.
C15_SetByGoInfinite ==
    (Returned /\ uci_mode = ENGINE_ANALYSIS) => analysing

\* C16: in spawn_uci_engine "uci" is the first command written, and no
\* setoption and no is-ready is written before the reader has dispatched
\* uciok; the poll of uci_ok has no deadline, so spawn neither returns nor
\* writes anything more while uciok has not come, whereas its wait_for_engine
\* does return after the deadline.
C16_Handshake ==
    /\ [](~uci_ok => /\ callerPc \in {"start", "uciok_wait"}
                      /\ callerFx \in {<<>>, <<WriteFx(<<Cmd("uci")>>)>>})
    /\ []((callerAt = "spawn" /\ callerPc # "start")
            => callerFx[1] = WriteFx(<<Cmd("uci")>>))
    /\ [][ (callerPc = "uciok_wait" /\ callerPc' # "uciok_wait")
           => /\ uci_ok
              /\ callerPc' = "wait"
              /\ Len(callerFx') = 6 ]_vars
    /\ (callerPc = "wait" /\ callerAt = "spawn" /\ timeouts < MaxTimeouts)
         ~> (callerPc = "idle" /\ callerAt = "spawn")

\* spawn_uci_engine has returned although the engine never answered its
\* is-ready.
C16_Witness ==
    /\ callerPc = "idle" /\ callerAt = "spawn"
    /\ waitExit = "timeout"
    /\ uci_ok /\ ~uci_ready
    /\ Len(callerFx) = 6

\* The engine has not answered "uci": spawn_uci_engine polls.
C16_WitnessSilent ==
    /\ callerPc = "uciok_wait"
    /\ ~uci_ok
    /\ Len(inq) = 1 /\ outq = <<>>
    /\ callerFx = <<WriteFx(<<Cmd("uci")>>)>>

\* The discard of lines 245-249 and 288-292 clears pondering.
C17_DiscardClearsPondering ==
    [][ (BestMoveNext /\ Dispatched /\ pondering) => ~pondering' ]_vars

\* A best-move event of an EngineWhite or EngineBlack game, played in turn
\* with every is-ready answered in time: it is discarded exactly when it ends
\* a ponder search, and otherwise appended.
C17_Discards ==
    (/\ BestMoveNext /\ Dispatched
     /\ uci_mode \in {ENGINE_WHITE, ENGINE_BLACK}
     /\ games = 1 /\ timeouts = 0 /\ InTurn)
    => /\ pondering => ~pondering'
       /\ pondering <=> Head(outq).sup
       /\ ~Head(outq).sup => /\ Len(all_moves') = Len(all_moves) + 1
                             /\ nEngineAppends' = nEngineAppends + 1

\* user_move_to_uci has returned and its "go" waits in uci_in behind a ponder
\* search nobody has stopped: that search ends with no best-move event, and
\* the timed search never starts.
C17_PonderSearchNeverEnds ==
    /\ callerPc = "idle" /\ callerAt = "um"
    /\ uci_mode \in {ENGINE_WHITE, ENGINE_BLACK}
    /\ games = 1 /\ timeouts = 0 /\ InTurn
    /\ readerPc = "read" /\ outq = <<>>
    /\ search = "ponder" /\ ~stopReq
    /\ inq = <<Cmd("go wtime btime")>>

\* C17: a best-move event discarded because pondering was set clears
\* pondering, so in EngineWhite or EngineBlack mode exactly one best-move
\* event is discarded per ponder search (the end of that search), and the
\* reply to the timed search user_move_to_uci started is accepted and
\* appended to the history.
C17_OneDiscardPerPonderSearch ==
    /\ [][C17_Discards]_vars
    /\ [](~C17_PonderSearchNeverEnds)

\* user_move_to_uci has just appended the user's move, in turn, in an
\* EngineWhite or EngineBlack game.
C18_UserMoved ==
    /\ callerPc = "wait" /\ callerAt = "um"
    /\ uci_mode \in {ENGINE_WHITE, ENGINE_BLACK}
    /\ games = 1 /\ timeouts = 0 /\ InTurn

\* C18: in EngineWhite or EngineBlack mode, with an engine that stays alive,
\* answers every is-ready and ends every timed or stopped search with a
\* bestmove line, every user_move_to_uci is eventually followed by the
\* acceptance of an engine best move (the history grows by the engine's move
\* and the GUI is notified), in every interleaving of the caller and the
\* reader.
C18_GameNeverStalls ==
    \A a \in 0..(2 * MaxOps) :
        (C18_UserMoved /\ nEngineAppends = a)
        ~> (\/ nEngineAppends > a /\ Len(guiMoves) > 0
            \/ timeouts > 0
            \/ games > 1)

\* The history both threads found.
C19_Base == [i \in 1..Len(gameEvents) |-> gameEvents[i].move]

\* C19: when user_move_to_uci's append_move and the reader's append_move run
\* concurrently, no token is lost or overwritten: once both have returned,
\* both tokens are in the history (in one of the two orders), the ply counter
\* has grown by two and the side to move has its earlier value, so
\* to_play = (number of tokens) mod 2 still holds.
C19_BothAppended ==
    (\A t \in Threads : appending[t].pc = "out" /\ appending[t].new_move # NoMove)
    => LET u == appending["caller"].new_move
           e == appending["reader"].new_move
       IN  /\ all_moves \in {C19_Base \o <<u, e>>, C19_Base \o <<e, u>>}
           /\ ply_num = Len(C19_Base) + 3
           /\ to_play = Len(C19_Base) % 2
           /\ to_play = Len(all_moves) % 2

\* What the step added to the reader's effects.
C20_Emitted == SubSeq(readerFx', Len(readerFx) + 1, Len(readerFx'))

C20_Updates(what) == Len(SelectSeq(C20_Emitted, LAMBDA fx : fx.what = what))

C20_Step ==
    LET info == Head(outq)
    IN  /\ UNCHANGED <<all_moves, ply_num, to_play, uci_mode, pondering, analysing,
                       uci_ready, uci_ok>>
        /\ inq' = inq
        /\ callerFx' = callerFx
        /\ Len(readerFx') >= Len(readerFx)
        /\ SubSeq(readerFx', 1, Len(readerFx)) = readerFx
        /\ \A i \in DOMAIN C20_Emitted : C20_Emitted[i].t = "display"
        /\ C20_Updates("score")
             = (IF info.cp # <<>> \/ info.mate # <<>> THEN 1 ELSE 0)
        /\ C20_Updates("best_line") = (IF info.pv # <<>> THEN 1 ELSE 0)
        /\ C20_Updates("nodes_per_second") = (IF info.nps # <<>> THEN 1 ELSE 0)
        /\ Len(C20_Emitted) = C20_Updates("score") + C20_Updates("best_line")
                                + C20_Updates("nodes_per_second")
        /\ readerPc' = "read"
        /\ lastEvent' = lastEvent
        /\ running_flag' = running_flag

\* C20: handling an info event leaves the history, the ply counter, the side
\* to move, the mode and the pondering, analysing, ready and handshake flags
\* as they were and writes nothing to the engine; it emits a score update
\* exactly when a centipawn or a mate score is in the line, a best-line
\* update exactly when a pv is, a nodes-per-second update exactly when nps
\* is, and nothing for a line with none of them, after which the reader goes
\* on as after any other line.
C20_InfoOnlyDisplays ==
    [][ (/\ readerPc = "read" /\ outq # <<>>
         /\ Head(outq).k = "UCI_INFO"
         /\ Dispatched)
        => C20_Step ]_vars

\* An info line with none of the fields has been handled: nothing was shown.
C20_Witness ==
    /\ outq = <<>>
    /\ readerFx = <<>>
    /\ readerPc = "read"

\* A line with a principal variation only.
C20_WitnessPv ==
    /\ outq = <<>>
    /\ readerFx = <<DisplayFx("best_line", "e7e5 g1f3")>>

\* A line with a mate score and nps.
C20_WitnessMateNps ==
    /\ outq = <<>>
    /\ uci_mode = ENGINE_WHITE
    /\ readerFx = <<DisplayFx("score", "#2"), DisplayFx("nodes_per_second", "0 kNps")>>

=============================================================================
